---------------------------- MODULE Spec2Model ----------------------------
(***************************************************************************)
(* Model of gravity_flyby (src/script.js): the Game mission state machine, *)
(* the Ship live step, the trajectory predictor of Game.drawTrajectory and *)
(* the collision / termination evaluation of Game.checkCollisions.         *)
(*                                                                         *)
(* Numbers.  The program computes in float64.  The model computes in       *)
(* fixed point: every number n of the program is the integer n * Unit,     *)
(* and every product, quotient and square root is rounded to the nearest   *)
(* representable value, as IEEE arithmetic rounds to the nearest double.   *)
(***************************************************************************)
EXTENDS Integers, Sequences, FiniteSets, TLC

VARIABLES
    state,          \* Game.state: "IDLE" | "FLYING" | "ENDED"
    ship,           \* Game.ship: [pos, vel, acc, radius, trail]
    planets,        \* Game.planets: sequence of Planet records
    goal,           \* Game.goal: [pos, radius]
    currentLevel,   \* Game.currentLevel
    isDragging,     \* Game.isDragging
    dragStart,      \* Game.dragStart (Null before the first mouse-down)
    dragCurrent,    \* Game.dragCurrent
    frameCount,     \* Game.frameCount
    canvas,         \* Game.canvas: [width, height]
    ui,             \* uiMessages / uiStage / retryBtn text: [message, hidden, stage, retryText]
    onclick,        \* retryBtn.onclick: "retry" (initLevel's handler) | "next" (gameWin's)
    ctxPath,        \* the points the predictor passed to ctx.lineTo in the last frame
    sim,            \* the predictor's locals simPos, simVel, simAcc: [pos, vel, acc]
    livePath,       \* history: the craft positions after each live step of a comparison run
    stepDt,         \* the step size of a comparison run
    lastEvent,      \* history: the handler that ran last
    outcomes,       \* history: the gameWin / gameLoss calls made by the last handler, in order
    sceneDims,      \* history: the (width, height) initLevel passed to the level function
    trajPre,        \* history: the live scene right before the last frame's drawTrajectory call
    trajPost,       \* history: the live scene right after it
    twin            \* a second run of the live step: [ship, frameCount, steps] (Null when none)

vars == <<state, ship, planets, goal, currentLevel, isDragging, dragStart,
          dragCurrent, frameCount, canvas, ui, onclick, ctxPath, sim, livePath,
          stepDt, lastEvent, outcomes, sceneDims, trajPre, trajPost, twin>>

-----------------------------------------------------------------------------
(* Numbers *)

\* Fixed-point resolution: the number 1 of the program is Unit in the model.
Unit == 20

\* The number n (an integer literal of the program).
Num(n) == n * Unit

Abs(a) == IF a < 0 THEN -a ELSE a

Sign(a) == IF a < 0 THEN -1 ELSE 1

Max(a, b) == IF a < b THEN b ELSE a

Min(a, b) == IF a < b THEN a ELSE b

\* F of the value of v: v is computed once, before F's body uses it.
Then(v, F(_)) == CHOOSE r \in {F(x) : x \in {v}} : TRUE

\* a / b rounded to the nearest integer, halves away from zero (b # 0).
RoundDiv(a, b) ==
    Sign(a) * Sign(b) * ((2 * Abs(a) + Abs(b)) \div (2 * Abs(b)))

\* The product and the quotient of two numbers.
Mul(a, b) == RoundDiv(a * b, Unit)

Quo(a, b) == RoundDiv(a * Unit, b)

\* The largest r with r * r <= n, by Newton's iteration down from a guess
\* r > 0 that is not below it.
RECURSIVE SqrtFloor(_, _)
SqrtFloor(n, r) ==
    LET q == (r + n \div r) \div 2
    IN IF q >= r THEN r ELSE SqrtFloor(n, q)

\* Math.sqrt of the integer n >= 0, rounded to the nearest integer; above is
\* a number whose square is at least n.
Sqrt(n, above) ==
    IF n = 0 THEN 0
    ELSE LET r == SqrtFloor(n, above)
         IN IF n - r * r > r THEN r + 1 ELSE r

\* Largest operand whose square is kept exact.
SqrtSafe == 32767

-----------------------------------------------------------------------------
(* class Vector2 *)

Vector2(x, y) == [x |-> x, y |-> y]

add(v, w) == Vector2(v.x + w.x, v.y + w.y)

sub(v, w) == Vector2(v.x - w.x, v.y - w.y)

mult(v, n) == Vector2(Mul(v.x, n), Mul(v.y, n))

\* Math.sqrt(x * x + y * y).  A float keeps a relative precision: above
\* SqrtSafe the components are scaled down by k before squaring, so that the
\* sum of squares stays inside the integers of the checker.
mag(v) ==
    LET ax == Abs(v.x)
        ay == Abs(v.y)
        big == Max(ax, ay)
        k == big \div SqrtSafe + 1
        sx == RoundDiv(ax, k)
        sy == RoundDiv(ay, k)
    IN IF big <= SqrtSafe
       THEN Sqrt(ax * ax + ay * ay, ax + ay)
       ELSE k * Sqrt(sx * sx + sy * sy, sx + sy)

\* Mutant of normalize: a vector of magnitude zero gets the direction of
\* the x axis.
normalizeZeroAsUnit(v) ==
    LET m == mag(v)
    IN IF m = 0 THEN Vector2(Num(1), 0) ELSE Vector2(Quo(v.x, m), Quo(v.y, m))

\* Vector2.normalize()
normalize(v) ==
    LET m == mag(v)
    IN IF m = 0 THEN Vector2(0, 0) ELSE Vector2(Quo(v.x, m), Quo(v.y, m))

dist(v1, v2) == mag(sub(v1, v2))

copy(v) == Vector2(v.x, v.y)


-----------------------------------------------------------------------------
(* Entities *)

\* An absent object (null).
Null == [null |-> TRUE]

\* Ship.radius.
ShipRadius == 8

\* Ship.maxTrailLength.
MaxTrailLength == 20

\* new Ship(x, y)
Ship(x, y) ==
    [pos |-> Vector2(x, y), vel |-> Vector2(0, 0), acc |-> Vector2(0, 0),
     radius |-> Num(ShipRadius), trail |-> <<>>]

\* new Planet(x, y, radius, gravity, influenceRadius)
Planet(x, y, radius, gravity, influenceRadius) ==
    [pos |-> Vector2(x, y), radius |-> radius, gravity |-> gravity,
     influenceRadius |-> influenceRadius]

\* new Goal(x, y, radius).  The pulse field is the phase of the goal's glow,
\* read and written by Goal.draw alone; it is not modelled.
Goal(x, y, radius) == [pos |-> Vector2(x, y), radius |-> radius]

\* The keys of Game.levels.
LevelNums == {1, 2, 3}

\* Game.levels[levelNum](w, h)
levels(levelNum, w, h) ==
    CASE levelNum = 1 ->
           [ship |-> Vector2(Num(100), h - Num(100)),
            goal |-> [pos |-> Vector2(w - Num(100), Num(100)), r |-> Num(30)],
            planets |-> <<Planet(Quo(w, Num(2)), Quo(h, Num(2)),
                                 Num(40), Num(5000), Num(300))>>]
      [] levelNum = 2 ->
           [ship |-> Vector2(Num(100), Quo(h, Num(2))),
            goal |-> [pos |-> Vector2(w - Num(100), Quo(h, Num(2))), r |-> Num(30)],
            planets |-> <<Planet(Quo(w, Num(3)), Quo(h, Num(2)) - Num(150),
                                 Num(35), Num(4000), Num(250)),
                          Planet(Quo(Mul(Num(2), w), Num(3)), Quo(h, Num(2)) + Num(150),
                                 Num(35), Num(4000), Num(250))>>]
      [] levelNum = 3 ->
           [ship |-> Vector2(Num(100), Quo(h, Num(2))),
            goal |-> [pos |-> Vector2(w - Num(100), Quo(h, Num(2))), r |-> Num(25)],
            planets |-> <<Planet(Quo(w, Num(2)), Quo(h, Num(2)),
                                 Num(60), Num(8000), Num(400)),
                          Planet(w - Num(200), Quo(h, Num(2)) - Num(150),
                                 Num(20), Num(2000), Num(150)),
                          Planet(w - Num(200), Quo(h, Num(2)) + Num(150),
                                 Num(20), Num(2000), Num(150))>>]

-----------------------------------------------------------------------------
(* The game object.  The handlers are operators from a game record g (the  *)
(* fields of Game, with the history fields) to the game record they leave. *)

Game ==
    [state |-> state, ship |-> ship, planets |-> planets, goal |-> goal,
     currentLevel |-> currentLevel, isDragging |-> isDragging,
     dragStart |-> dragStart, dragCurrent |-> dragCurrent,
     frameCount |-> frameCount, canvas |-> canvas, ui |-> ui,
     onclick |-> onclick, ctxPath |-> ctxPath, outcomes |-> outcomes,
     sceneDims |-> sceneDims, trajPre |-> trajPre, trajPost |-> trajPost]

\* The live scene and the mission state, as one value.
Scene(g) ==
    [ship |-> g.ship, planets |-> g.planets, goal |-> g.goal, state |-> g.state]

\* Mutant of initLevel: an unknown level number falls back to the
\* configuration of level 1 and this.currentLevel keeps its value.
initLevelNoWrap(g, levelNum) ==
    LET known == levelNum \in LevelNums
        num == IF known THEN levelNum ELSE 1
        config == levels(num, g.canvas.width, g.canvas.height)
    IN [g EXCEPT
          !.state = "IDLE",
          !.ui = [@ EXCEPT !.hidden = TRUE, !.stage = num, !.retryText = "RETRY"],
          !.onclick = "retry",
          !.ship = Ship(config.ship.x, config.ship.y),
          !.planets = config.planets,
          !.goal = Goal(config.goal.pos.x, config.goal.pos.y, config.goal.r),
          !.sceneDims = g.canvas]

\* Game.initLevel(levelNum)
initLevel(g, levelNum) ==
    LET known == levelNum \in LevelNums
        num == IF known THEN levelNum ELSE 1
        config == levels(num, g.canvas.width, g.canvas.height)
    IN [g EXCEPT
          !.currentLevel = IF known THEN @ ELSE 1,
          !.state = "IDLE",
          !.ui = [@ EXCEPT !.hidden = TRUE, !.stage = num, !.retryText = "RETRY"],
          !.onclick = "retry",
          !.ship = Ship(config.ship.x, config.ship.y),
          !.planets = config.planets,
          !.goal = Goal(config.goal.pos.x, config.goal.pos.y, config.goal.r),
          !.sceneDims = g.canvas]

\* Game.initLevel from its line "this.state = GAME_STATE.IDLE" on, with
\* config the value the level function of levelNum returned.
initLevelFrom(g, levelNum, config) ==
    [g EXCEPT
       !.state = "IDLE",
       !.ui = [@ EXCEPT !.hidden = TRUE, !.stage = levelNum, !.retryText = "RETRY"],
       !.onclick = "retry",
       !.ship = Ship(config.ship.x, config.ship.y),
       !.planets = config.planets,
       !.goal = Goal(config.goal.pos.x, config.goal.pos.y, config.goal.r),
       !.sceneDims = g.canvas]

\* Mutant of onMouseDown: the guard on the mission state is missing.
onMouseDownAnyState(g, pos) ==
    [g EXCEPT !.isDragging = TRUE, !.dragStart = pos, !.dragCurrent = pos]

\* Game.onMouseDown(e), with pos = getMousePos(e)
onMouseDown(g, pos) ==
    IF g.state # "IDLE" THEN g
    ELSE [g EXCEPT !.isDragging = TRUE, !.dragStart = pos, !.dragCurrent = pos]

\* Game.onMouseMove(e), with pos = getMousePos(e)
onMouseMove(g, pos) ==
    IF ~g.isDragging THEN g
    ELSE [g EXCEPT !.dragCurrent = pos]

\* const power = 3.0
Power == 3

\* The literal 0.1.
Tenth == Quo(Num(1), Num(10))

\* dragVector.mult(0.1 * power), in onMouseUp and in drawTrajectory
launchVelOf(start, current) == mult(sub(start, current), Mul(Tenth, Num(Power)))

\* Mutant of onMouseUp: the launch sets the velocity and leaves the state.
onMouseUpStaysIdle(g) ==
    IF ~g.isDragging THEN g
    ELSE [g EXCEPT !.isDragging = FALSE,
                   !.ship = [@ EXCEPT !.vel = launchVelOf(g.dragStart, g.dragCurrent)]]

\* Game.onMouseUp(e)
onMouseUp(g) ==
    IF ~g.isDragging THEN g
    ELSE [g EXCEPT !.isDragging = FALSE,
                   !.ship = [@ EXCEPT !.vel = launchVelOf(g.dragStart, g.dragCurrent)],
                   !.state = "FLYING"]

-----------------------------------------------------------------------------
(* The live step *)

\* let epsilon = 5.0
Epsilon == 5

\* The frame counter values at which Ship.update extends the trail.
TrailEvery == 5

\* Mutant of shipGravity: a planet at d = influenceRadius still pulls.
RECURSIVE shipGravityInclusive(_, _, _, _)
shipGravityInclusive(pos, ps, i, acc) ==
    IF i > Len(ps) THEN acc
    ELSE LET planet == ps[i]
             dir == sub(planet.pos, pos)
             d == mag(dir)
             strength == Quo(planet.gravity, d + Num(Epsilon))
             force == mult(normalize(dir), strength)
         IN shipGravityInclusive(pos, ps, i + 1,
                        IF d <= planet.influenceRadius THEN add(acc, force) ELSE acc)

\* The planet loop of Ship.update: this.acc after planets i.. have applied
\* their force to acc.
RECURSIVE shipGravity(_, _, _, _)
shipGravity(pos, ps, i, acc) ==
    IF i > Len(ps) THEN acc
    ELSE LET planet == ps[i]
             dir == sub(planet.pos, pos)
             d == mag(dir)
             strength == Quo(planet.gravity, d + Num(Epsilon))
             force == mult(normalize(dir), strength)
         IN shipGravity(pos, ps, i + 1,
                        IF d < planet.influenceRadius THEN add(acc, force) ELSE acc)

\* Mutant of trailAfter: the length test is missing, nothing is evicted.
trailAfterNoShift(trail, pos, frames) ==
    IF frames % TrailEvery = 0 THEN Append(trail, copy(pos)) ELSE trail

\* The trail after Ship.update's "Trail effect" block.
trailAfter(trail, pos, frames) ==
    IF frames % TrailEvery = 0
    THEN LET pushed == Append(trail, copy(pos))
         IN IF Len(pushed) > MaxTrailLength THEN Tail(pushed) ELSE pushed
    ELSE trail

\* Mutant of shipUpdate: this.acc is not reset, the forces add to the
\* acceleration the step before left.
shipUpdateStaleAcc(s, dt, ps, frames) ==
    LET acc == shipGravity(s.pos, ps, 1, s.acc)
        vel == add(s.vel, mult(acc, dt))
        pos == add(s.pos, mult(vel, dt))
    IN [s EXCEPT !.acc = acc, !.vel = vel, !.pos = pos,
                 !.trail = trailAfter(s.trail, pos, frames)]

\* Mutant of shipUpdate: the position advances by the velocity before the
\* step (explicit Euler).
shipUpdateOldVel(s, dt, ps, frames) ==
    LET acc == shipGravity(s.pos, ps, 1, Vector2(0, 0))
        vel == add(s.vel, mult(acc, dt))
        pos == add(s.pos, mult(s.vel, dt))
    IN [s EXCEPT !.acc = acc, !.vel = vel, !.pos = pos,
                 !.trail = trailAfter(s.trail, pos, frames)]

\* Ship.update(dt, planets); frames is GlobalGame.frameCount.
shipUpdate(s, dt, ps, frames) ==
    LET acc == shipGravity(s.pos, ps, 1, Vector2(0, 0))
        vel == add(s.vel, mult(acc, dt))
        pos == add(s.pos, mult(vel, dt))
    IN [s EXCEPT !.acc = acc, !.vel = vel, !.pos = pos,
                 !.trail = trailAfter(s.trail, pos, frames)]

-----------------------------------------------------------------------------
(* Collision / termination evaluation *)

\* Game.gameWin()
gameWin(g) ==
    [g EXCEPT !.state = "ENDED",
              !.ui = [@ EXCEPT !.message = "COURSE CLEAR!", !.hidden = FALSE,
                               !.retryText = "NEXT LEVEL"],
              !.onclick = "next",
              !.outcomes = Append(@, "COURSE CLEAR!")]

\* Game.gameLoss(msg)
gameLoss(g, msg) ==
    [g EXCEPT !.state = "ENDED",
              !.ui = [@ EXCEPT !.message = msg, !.hidden = FALSE],
              !.outcomes = Append(@, msg)]

\* const m = 0 (the out-of-bounds margin)
Margin == 0

\* Mutant of checkGoal: the threshold is inclusive.
checkGoalInclusive(g) ==
    IF dist(g.ship.pos, g.goal.pos) <= g.goal.radius + g.ship.radius
    THEN gameWin(g) ELSE g

\* The "Goal" block of checkCollisions.
checkGoal(g) ==
    IF dist(g.ship.pos, g.goal.pos) < g.goal.radius + g.ship.radius
    THEN gameWin(g) ELSE g

\* The "Planets" loop of checkCollisions, from planet i on.
RECURSIVE checkPlanets(_, _)
checkPlanets(g, i) ==
    IF i > Len(g.planets) THEN g
    ELSE LET p == g.planets[i]
         IN checkPlanets(IF dist(g.ship.pos, p.pos) < p.radius + g.ship.radius
                         THEN gameLoss(g, "CRASHED!") ELSE g,
                         i + 1)

\* Mutant of outOfBounds: the edges of the play area are outside.
outOfBoundsExclusive(pos, cv) ==
    \/ pos.x <= -Num(Margin)
    \/ pos.x >= cv.width + Num(Margin)
    \/ pos.y <= -Num(Margin)
    \/ pos.y >= cv.height + Num(Margin)

\* The "Out of bounds" condition of checkCollisions.
outOfBounds(pos, cv) ==
    \/ pos.x < -Num(Margin)
    \/ pos.x > cv.width + Num(Margin)
    \/ pos.y < -Num(Margin)
    \/ pos.y > cv.height + Num(Margin)

\* The "Out of bounds" block of checkCollisions.
checkBounds(g) ==
    IF outOfBounds(g.ship.pos, g.canvas) THEN gameLoss(g, "LOST IN SPACE") ELSE g

\* Game.checkCollisions()
checkCollisions(g) == checkBounds(checkPlanets(checkGoal(g), 1))

\* The time scale of the live step (dt * 20).
TimeScale == 20

\* Mutant of update: the live step runs in every mission state.
updateAnyState(g, dt) ==
    LET counted == [g EXCEPT !.frameCount = @ + 1]
    IN checkCollisions(
         [counted EXCEPT !.ship = shipUpdate(@, Mul(dt, Num(TimeScale)),
                                             counted.planets, counted.frameCount)])

\* Game.update(dt)
update(g, dt) ==
    LET counted == [g EXCEPT !.frameCount = @ + 1]
    IN IF counted.state = "FLYING"
       THEN checkCollisions(
              [counted EXCEPT !.ship = shipUpdate(@, Mul(dt, Num(TimeScale)),
                                                  counted.planets, counted.frameCount)])
       ELSE counted

-----------------------------------------------------------------------------
(* The trajectory predictor *)

\* const steps = 100
Steps == 100

\* const simDt = 1
SimDt == 1

\* The planet loop of the predictor: simAcc after planets i.. have added
\* their force to acc.
RECURSIVE simGravity(_, _, _, _)
simGravity(simPos, ps, i, acc) ==
    IF i > Len(ps) THEN acc
    ELSE LET planet == ps[i]
             dir == sub(planet.pos, simPos)
             d == mag(dir)
             strength == Quo(planet.gravity, d + Num(Epsilon))
             force == mult(normalize(dir), strength)
         IN simGravity(simPos, ps, i + 1,
                       IF d < planet.influenceRadius THEN add(acc, force) ELSE acc)

\* Mutant of predictStep: the position advances by the velocity before the
\* step (explicit Euler).
predictStepOldVel(sm, ps, dt) ==
    LET simAcc == simGravity(sm.pos, ps, 1, Vector2(0, 0))
        simVel == add(sm.vel, mult(simAcc, dt))
        simPos == add(sm.pos, mult(sm.vel, dt))
    IN [pos |-> simPos, vel |-> simVel, acc |-> simAcc]

\* One iteration of the predictor loop, up to the new simPos.
predictStep(sm, ps, dt) ==
    LET simAcc == simGravity(sm.pos, ps, 1, Vector2(0, 0))
        simVel == add(sm.vel, mult(simAcc, dt))
        simPos == add(sm.pos, mult(simVel, dt))
    IN [pos |-> simPos, vel |-> simVel, acc |-> simAcc]

\* The "collision in future" loop of one predictor iteration, from planet i
\* on: TRUE when it leaves by its break.
RECURSIVE futureCollision(_, _, _)
futureCollision(simPos, ps, i) ==
    IF i > Len(ps) THEN FALSE
    ELSE IF dist(simPos, ps[i].pos) < ps[i].radius THEN TRUE
    ELSE futureCollision(simPos, ps, i + 1)

\* Mutant of predictLoop: the break of the future-collision check leaves the
\* predictor loop as well (stopped: a break has been taken).
RECURSIVE predictLoopStops(_, _, _, _)
predictLoopStops(i, n, sm, ps) ==
    IF n = 0 THEN [sm |-> sm, path |-> <<>>, stopped |-> FALSE]
    ELSE IF n = 1
    THEN Then(predictStep(sm, ps, Num(SimDt)), LAMBDA next :
           [sm |-> next, path |-> <<next.pos>>,
            stopped |-> futureCollision(next.pos, ps, 1)])
    ELSE Then(predictLoopStops(i, n \div 2, sm, ps), LAMBDA first :
           IF first.stopped THEN first
           ELSE Then(predictLoopStops(i + n \div 2, n - n \div 2, first.sm, ps),
                     LAMBDA rest :
                       [sm |-> rest.sm, path |-> first.path \o rest.path,
                        stopped |-> rest.stopped]))

\* Iterations i .. i + n - 1 of the predictor loop, entered with the locals
\* sm: the locals they leave and the points they pass to ctx.lineTo.  A run
\* of n > 1 iterations is its first half followed by its second half.  The
\* break of the inner loop leaves the inner loop only: every iteration is
\* followed by the next one.
RECURSIVE predictLoop(_, _, _, _)
predictLoop(i, n, sm, ps) ==
    IF n = 0 THEN [sm |-> sm, path |-> <<>>]
    ELSE IF n = 1
    THEN Then(predictStep(sm, ps, Num(SimDt)), LAMBDA next :
           IF futureCollision(next.pos, ps, 1)
           THEN [sm |-> next, path |-> <<next.pos>>]
           ELSE [sm |-> next, path |-> <<next.pos>>])
    ELSE Then(predictLoop(i, n \div 2, sm, ps), LAMBDA first :
         Then(predictLoop(i + n \div 2, n - n \div 2, first.sm, ps), LAMBDA rest :
           [sm |-> rest.sm, path |-> first.path \o rest.path]))

\* Mutant of drawTrajectory: the predictor steps the craft itself (simPos
\* and simVel alias the ship's vectors instead of copying them).
drawTrajectoryInPlace(g) ==
    LET launchVel == launchVelOf(g.dragStart, g.dragCurrent)
        sm == [pos |-> g.ship.pos, vel |-> launchVel, acc |-> Vector2(0, 0)]
        run == predictLoop(0, Steps, sm, g.planets)
    IN [g EXCEPT !.ctxPath = run.path,
                 !.ship = [@ EXCEPT !.pos = run.sm.pos, !.vel = run.sm.vel]]

\* Game.drawTrajectory()
drawTrajectory(g) ==
    LET launchVel == launchVelOf(g.dragStart, g.dragCurrent)
        sm == [pos |-> copy(g.ship.pos), vel |-> copy(launchVel), acc |-> Vector2(0, 0)]
    IN [g EXCEPT !.ctxPath = predictLoop(0, Steps, sm, g.planets).path]

\* Game.draw(): clears the canvas, predicts while a launch is being composed,
\* then draws the entities.
draw(g) ==
    LET cleared == [g EXCEPT !.ctxPath = <<>>]
        predicts == cleared.state = "IDLE" /\ cleared.isDragging
        drawn == IF predicts THEN drawTrajectory(cleared) ELSE cleared
    IN [drawn EXCEPT !.trajPre = IF predicts THEN Scene(cleared) ELSE Null,
                     !.trajPost = IF predicts THEN Scene(drawn) ELSE Null]

\* Game.loop(timestamp), with dt = (timestamp - lastTime) / 1000
loop(g, dt) == draw(update(g, dt))

-----------------------------------------------------------------------------
(* The retry button and the window *)

\* Mutant of retryListener: the listener restarts the level after a win too.
retryListenerUnguarded(g) == initLevel(g, g.currentLevel)

\* The click listener the constructor adds to retryBtn.
retryListener(g) ==
    IF g.state # "ENDED" \/ g.ui.message # "COURSE CLEAR!"
    THEN initLevel(g, g.currentLevel)
    ELSE g

\* Mutant of retryOnclick: the next-level handler advances the level number
\* and does not build the level.
retryOnclickNoInit(g) ==
    IF g.onclick = "next"
    THEN [g EXCEPT !.currentLevel = @ + 1]
    ELSE initLevel(g, g.currentLevel)

\* retryBtn.onclick, as set by initLevel ("retry") or by gameWin ("next").
retryOnclick(g) ==
    IF g.onclick = "next"
    THEN initLevel([g EXCEPT !.currentLevel = @ + 1], g.currentLevel + 1)
    ELSE initLevel(g, g.currentLevel)

\* A click on retryBtn: the listener was added before onclick was first set,
\* so it runs first; onclick is read when its turn comes.
retryClick(g) == retryOnclick(retryListener(g))

\* Game.resize(), with the window's new inner size
resize(g, size) == [g EXCEPT !.canvas = size]

-----------------------------------------------------------------------------
(* Inputs and bounds *)

\* Frames a behaviour runs (frameCount is never reset).
MaxFrames == 3

\* The steps of a comparison run of the live step against the predictor.
MaxSteps == 4

\* window.innerWidth x window.innerHeight
Size(w, h) == [width |-> Num(w), height |-> Num(h)]

CanvasSizes == {Size(300, 300)}

\* getMousePos(e) of the mouse events
MousePts == {Vector2(Num(0), Num(150)), Vector2(Num(50), Num(150)),
             Vector2(Num(100), Num(50))}

\* Frame deltas dt, in seconds: 0.05 and 0.1
Dts == {Quo(Num(5), Num(100)), Quo(Num(10), Num(100))}

-----------------------------------------------------------------------------
(* The game: one action per event handler *)

\* The game as the handler finds it: no terminal call made yet.
In == [Game EXCEPT !.outcomes = <<>>]

\* The handler ev leaves the game g.
Becomes(g, ev) ==
    /\ state' = g.state
    /\ ship' = g.ship
    /\ planets' = g.planets
    /\ goal' = g.goal
    /\ currentLevel' = g.currentLevel
    /\ isDragging' = g.isDragging
    /\ dragStart' = g.dragStart
    /\ dragCurrent' = g.dragCurrent
    /\ frameCount' = g.frameCount
    /\ canvas' = g.canvas
    /\ ui' = g.ui
    /\ onclick' = g.onclick
    /\ ctxPath' = g.ctxPath
    /\ outcomes' = g.outcomes
    /\ sceneDims' = g.sceneDims
    /\ trajPre' = g.trajPre
    /\ trajPost' = g.trajPost
    /\ lastEvent' = ev
    /\ UNCHANGED <<sim, livePath, stepDt, twin>>

\* The fields of Game after the constructor, before its call of initLevel.
Constructed(size) ==
    [state |-> "IDLE", ship |-> Null, planets |-> <<>>, goal |-> Null,
     currentLevel |-> 1, isDragging |-> FALSE, dragStart |-> Null,
     dragCurrent |-> Null, frameCount |-> 0, canvas |-> size,
     ui |-> [message |-> "", hidden |-> TRUE, stage |-> 0, retryText |-> "RETRY"],
     onclick |-> "none", ctxPath |-> <<>>, outcomes |-> <<>>,
     sceneDims |-> size, trajPre |-> Null, trajPost |-> Null]

\* The game g is the initial state; ev names how it came about.
Begins(g, ev) ==
    /\ state = g.state
    /\ ship = g.ship
    /\ planets = g.planets
    /\ goal = g.goal
    /\ currentLevel = g.currentLevel
    /\ isDragging = g.isDragging
    /\ dragStart = g.dragStart
    /\ dragCurrent = g.dragCurrent
    /\ frameCount = g.frameCount
    /\ canvas = g.canvas
    /\ ui = g.ui
    /\ onclick = g.onclick
    /\ ctxPath = g.ctxPath
    /\ outcomes = g.outcomes
    /\ sceneDims = g.sceneDims
    /\ trajPre = g.trajPre
    /\ trajPost = g.trajPost
    /\ lastEvent = ev

\* new Game()
Init ==
    /\ \E size \in CanvasSizes : Begins(initLevel(Constructed(size), 1), "new")
    /\ sim = Null
    /\ twin = Null
    /\ livePath = <<>>
    /\ stepDt = 0

MouseDown == \E pos \in MousePts : Becomes(onMouseDown(In, pos), "mousedown")

MouseMove == \E pos \in MousePts : Becomes(onMouseMove(In, pos), "mousemove")

MouseUp == Becomes(onMouseUp(In), "mouseup")

RetryClick == Becomes(retryClick(In), "retry")

Resize == \E size \in CanvasSizes : Becomes(resize(In, size), "resize")

Tick ==
    /\ frameCount < MaxFrames
    /\ \E dt \in Dts : Becomes(loop(In, dt), "tick")

Next == MouseDown \/ MouseMove \/ MouseUp \/ RetryClick \/ Resize \/ Tick

Spec == Init /\ [][Next]_vars

-----------------------------------------------------------------------------
(* The evaluation on its own: checkCollisions applied to a craft in flight *)
(* at a probe position, in a scene built for one window size and a play    *)
(* area of another (the window was resized since).                         *)

AreaSizes == {Size(300, 300), Size(600, 400)}

\* Probe coordinates: on, one step inside and one step outside the edges of
\* the play areas, and around the goal and the planets of the levels.
ProbeXs == {-1, 0, Num(150), Num(175), Num(300), Num(300) + 1, Num(500),
            Num(600), Num(600) + 1}

ProbeYs == {-1, 0, Num(125), Num(136), Num(137), Num(138), Num(300),
            Num(300) + 1, Num(400), Num(400) + 1}

\* The game in flight at pos, in level num built for the window size built,
\* with the window now of size area.
InFlight(num, built, area, pos) ==
    LET g == initLevel([Constructed(built) EXCEPT !.currentLevel = num], num)
    IN [g EXCEPT !.state = "FLYING", !.canvas = area, !.frameCount = 1,
                 !.ship = [@ EXCEPT !.pos = pos, !.vel = Vector2(Num(3), -Num(3))]]

InitEval ==
    /\ \E num \in LevelNums, built \in AreaSizes, area \in AreaSizes,
          x \in ProbeXs, y \in ProbeYs :
          Begins(InFlight(num, built, area, Vector2(x, y)), "shipUpdate")
    /\ sim = Null
    /\ twin = Null
    /\ livePath = <<>>
    /\ stepDt = 0

Evaluate ==
    /\ lastEvent = "shipUpdate"
    /\ Becomes(checkCollisions(In), "checkCollisions")

NextEval == Evaluate

SpecEval == InitEval /\ [][NextEval]_vars

-----------------------------------------------------------------------------
(* The live step against the predictor: both started from the same craft   *)
(* state, planets and step size, each stepped on its own.                  *)

\* Step sizes: simDt, and the live step of a frame of 0.1 s.
StepDts == {Num(SimDt), Mul(Quo(Num(10), Num(100)), Num(TimeScale))}

InitPredict ==
    /\ \E num \in LevelNums, size \in AreaSizes, a \in MousePts, b \in MousePts :
          LET g == initLevel([Constructed(size) EXCEPT !.currentLevel = num], num)
              launched == [g EXCEPT !.state = "FLYING",
                                    !.ship = [@ EXCEPT !.vel = launchVelOf(a, b)]]
          IN /\ Begins(launched, "launch")
             /\ sim = [pos |-> copy(launched.ship.pos),
                       vel |-> copy(launched.ship.vel), acc |-> Vector2(0, 0)]
    /\ livePath = <<>>
    /\ twin = Null
    /\ stepDt \in StepDts

\* Ship.update(stepDt, planets), as Game.update calls it
LiveStep ==
    /\ Len(livePath) < MaxSteps
    /\ frameCount' = frameCount + 1
    /\ ship' = shipUpdate(ship, stepDt, planets, frameCount + 1)
    /\ livePath' = Append(livePath, ship'.pos)
    /\ lastEvent' = "liveStep"
    /\ UNCHANGED <<state, planets, goal, currentLevel, isDragging, dragStart,
                   dragCurrent, canvas, ui, onclick, ctxPath, sim, stepDt,
                   outcomes, sceneDims, trajPre, trajPost, twin>>

\* One iteration of the predictor loop, with the step size stepDt
PredictStep ==
    /\ Len(ctxPath) < MaxSteps
    /\ sim' = predictStep(sim, planets, stepDt)
    /\ ctxPath' = Append(ctxPath, sim'.pos)
    /\ lastEvent' = "predictStep"
    /\ UNCHANGED <<state, ship, planets, goal, currentLevel, isDragging,
                   dragStart, dragCurrent, frameCount, canvas, ui, onclick,
                   livePath, stepDt, outcomes, sceneDims, trajPre, trajPost, twin>>

NextPredict == LiveStep \/ PredictStep

SpecPredict == InitPredict /\ [][NextPredict]_vars

-----------------------------------------------------------------------------
(* The live step on its own: Ship.update applied once to a craft among     *)
(* test planets, in two runs that share the position, the velocity, the    *)
(* planets and the step size, and differ in the frame counter, the trail   *)
(* and the acceleration left by the step before.                           *)

\* The craft position of the step runs.
StepPos == Vector2(Num(200), Num(200))

\* new Planet(...) at the offset (dx, dy) from StepPos.
PlanetAt(dx, dy, gravity, influenceRadius) ==
    Planet(StepPos.x + dx, StepPos.y + dy, Num(10), gravity, influenceRadius)

\* Planet lists: a planet straight above at d = 95 (strength 1000 / 100 =
\* 10), one on the craft (d = 0), one at d = influenceRadius exactly, one a
\* step beyond it and one a step inside it, one at d = 100 along (-3, 4)
\* (strength 2100 / 105 = 20), one without gravity, and pairs of these.
StepPlanets ==
    { <<PlanetAt(0, -Num(95), Num(1000), Num(300))>>,
      <<PlanetAt(0, 0, Num(1000), Num(300))>>,
      <<PlanetAt(Num(300), 0, Num(1000), Num(300))>>,
      <<PlanetAt(Num(300) + 1, 0, Num(1000), Num(300))>>,
      <<PlanetAt(Num(300) - 1, 0, Num(1000), Num(300))>>,
      <<PlanetAt(-Num(60), Num(80), Num(2100), Num(150))>>,
      <<PlanetAt(0, Num(45), 0, Num(300))>>,
      <<PlanetAt(0, 0, Num(1000), Num(300)),
        PlanetAt(-Num(60), Num(80), Num(2100), Num(150))>>,
      <<PlanetAt(0, -Num(300), Num(1000), Num(300)),
        PlanetAt(0, -Num(95), Num(1000), Num(300))>> }

StepVels == {Vector2(0, 0), Vector2(Num(3), -Num(3))}

\* this.acc as the step before left it.
StaleAccs == {Vector2(0, 0), Vector2(Num(7), -Num(2))}

StepTrails == {<<>>, <<Vector2(Num(190), Num(210))>>}

\* GlobalGame.frameCount when Ship.update runs.
StepFrames == {4, 5}

\* The craft of a step run.
StepCraft(vel, acc, trail) ==
    [Ship(StepPos.x, StepPos.y) EXCEPT !.vel = vel, !.acc = acc, !.trail = trail]

InitStep ==
    /\ \E ps \in StepPlanets, vel \in StepVels, acc1 \in StaleAccs,
          acc2 \in StaleAccs, trail1 \in StepTrails, trail2 \in StepTrails,
          frames1 \in StepFrames, frames2 \in StepFrames :
          LET g == initLevel(Constructed(Size(600, 400)), 1)
          IN /\ Begins([g EXCEPT !.state = "FLYING",
                                 !.ship = StepCraft(vel, acc1, trail1),
                                 !.planets = ps,
                                 !.frameCount = frames1], "begin")
             /\ twin = [ship |-> StepCraft(vel, acc2, trail2),
                        frameCount |-> frames2, steps |-> 0]
    /\ sim = Null
    /\ livePath = <<>>
    /\ stepDt \in StepDts

\* this.ship.update(stepDt, this.planets) in the first run
Advance ==
    /\ livePath = <<>>
    /\ ship' = shipUpdate(ship, stepDt, planets, frameCount)
    /\ livePath' = <<ship'.pos>>
    /\ lastEvent' = "advance"
    /\ UNCHANGED <<state, planets, goal, currentLevel, isDragging, dragStart,
                   dragCurrent, frameCount, canvas, ui, onclick, ctxPath, sim,
                   stepDt, outcomes, sceneDims, trajPre, trajPost, twin>>

\* this.ship.update(stepDt, this.planets) in the second run
AdvanceTwin ==
    /\ twin.steps = 0
    /\ twin' = [twin EXCEPT
                  !.ship = shipUpdate(@, stepDt, planets, twin.frameCount),
                  !.steps = 1]
    /\ lastEvent' = "advanceTwin"
    /\ UNCHANGED <<state, ship, planets, goal, currentLevel, isDragging,
                   dragStart, dragCurrent, frameCount, canvas, ui, onclick,
                   ctxPath, sim, livePath, stepDt, outcomes, sceneDims,
                   trajPre, trajPost>>

NextStep == Advance \/ AdvanceTwin

SpecStep == InitStep /\ [][NextStep]_vars

-----------------------------------------------------------------------------
(* Scene construction from a level configuration: the level function of    *)
(* level 1 returns one of LevelConfigs, initLevel builds the scene from it, *)
(* and the craft is launched and stepped.                                  *)

\* Level configurations with the geometry of level 1 in a 600 x 400 window:
\* the planet's radius, gravity and influence radius and the goal's radius
\* are the level's own or non-physical ones.
LevelConfigs ==
    { [ship |-> Vector2(Num(100), Num(300)),
       goal |-> [pos |-> Vector2(Num(500), Num(100)), r |-> gr],
       planets |-> <<Planet(Num(300), Num(200), pr, pg, pi)>>] :
      gr \in {Num(30), 0, -Num(30)},
      pr \in {Num(40), 0, -Num(40)},
      pg \in {Num(5000), -Num(5000)},
      pi \in {Num(300), 0} }

\* The constructor up to its call of initLevel.
InitConfig ==
    /\ Begins(Constructed(Size(600, 400)), "new")
    /\ sim = Null
    /\ twin = Null
    /\ livePath = <<>>
    /\ stepDt = 0

\* this.initLevel(this.currentLevel), the level function returning config
ConfigInitLevel ==
    /\ lastEvent = "new"
    /\ \E config \in LevelConfigs : Becomes(initLevelFrom(In, 1, config), "initLevel")

ConfigMouseDown ==
    /\ lastEvent = "initLevel"
    /\ Becomes(onMouseDown(In, Vector2(Num(100), Num(50))), "mousedown")

ConfigMouseMove ==
    /\ lastEvent = "mousedown"
    /\ Becomes(onMouseMove(In, Vector2(Num(0), Num(150))), "mousemove")

ConfigMouseUp ==
    /\ lastEvent = "mousemove"
    /\ Becomes(onMouseUp(In), "mouseup")

ConfigTick ==
    /\ lastEvent \in {"mouseup", "tick"}
    /\ frameCount < MaxFrames
    /\ \E dt \in Dts : Becomes(loop(In, dt), "tick")

NextConfig ==
    ConfigInitLevel \/ ConfigMouseDown \/ ConfigMouseMove \/ ConfigMouseUp \/ ConfigTick

SpecConfig == InitConfig /\ [][NextConfig]_vars

-----------------------------------------------------------------------------
(* Long flights: the game in a window so large that the craft of level 1   *)
(* starts outside the planet's influence radius and flies on for more than *)
(* a hundred frames.                                                       *)

\* The number of frames of a long flight.
MaxTrailFrames == 105

\* The number of frames drawn while a launch is being composed.
MaxDragFrames == 2

TrailSize == Size(2000, 2000)

\* Mouse positions: drags of 10 px to the right and to the left, and none.
TrailPts == {Vector2(Num(100), Num(100)), Vector2(Num(90), Num(100))}

\* The frame time: 0.05 s.
TrailDt == Quo(Num(5), Num(100))

InitTrail ==
    /\ Begins(initLevel(Constructed(TrailSize), 1), "new")
    /\ sim = Null
    /\ twin = Null
    /\ livePath = <<>>
    /\ stepDt = 0

TrailMouseDown == \E pos \in TrailPts : Becomes(onMouseDown(In, pos), "mousedown")

TrailMouseMove == \E pos \in TrailPts : Becomes(onMouseMove(In, pos), "mousemove")

TrailMouseUp == Becomes(onMouseUp(In), "mouseup")

TrailRetryClick == Becomes(retryClick(In), "retry")

\* Frames are drawn during a drag (with a prediction each) up to frame
\* MaxDragFrames only.
TrailTick ==
    /\ frameCount < MaxTrailFrames
    /\ isDragging => frameCount < MaxDragFrames
    /\ Becomes(loop(In, TrailDt), "tick")

NextTrail ==
    TrailMouseDown \/ TrailMouseMove \/ TrailMouseUp \/ TrailRetryClick \/ TrailTick

SpecTrail == InitTrail /\ [][NextTrail]_vars

-----------------------------------------------------------------------------
(* Levels: the game in flight in each level, at positions where the next   *)
(* evaluation wins, loses, does both or neither, followed by the events of *)
(* the game.                                                               *)

\* Craft positions in a 300 x 300 window: on the goal of level 1, near the
\* goal of levels 2 and 3 clear of the planets, within the goal's and the
\* planet's threshold of level 1 at once, on the planet of levels 1 and 3,
\* and one step outside the play area.
LevelProbes ==
    { Vector2(Num(200), Num(100)), Vector2(Num(225), Num(150)),
      Vector2(Num(175), Num(125)), Vector2(Num(150), Num(150)),
      Vector2(-1, Num(150)) }

InitLevels ==
    /\ \E num \in LevelNums, size \in CanvasSizes, pos \in LevelProbes :
          Begins(InFlight(num, size, size, pos), "shipUpdate")
    /\ sim = Null
    /\ twin = Null
    /\ livePath = <<>>
    /\ stepDt = 0

LevelsMouseDown == \E pos \in MousePts : Becomes(onMouseDown(In, pos), "mousedown")

LevelsMouseMove == \E pos \in MousePts : Becomes(onMouseMove(In, pos), "mousemove")

LevelsMouseUp == Becomes(onMouseUp(In), "mouseup")

LevelsRetryClick == Becomes(retryClick(In), "retry")

LevelsTick ==
    /\ lastEvent # "shipUpdate"
    /\ frameCount < MaxFrames
    /\ isDragging => frameCount < MaxDragFrames
    /\ \E dt \in Dts : Becomes(loop(In, dt), "tick")

NextLevels ==
    \/ Evaluate
    \/ LevelsMouseDown
    \/ LevelsMouseMove
    \/ LevelsMouseUp
    \/ LevelsRetryClick
    \/ LevelsTick

SpecLevels == InitLevels /\ [][NextLevels]_vars

-----------------------------------------------------------------------------
(* Properties.  The thresholds are restated here from the specification.   *)

\* The craft c is within the goal-reached threshold of the goal gl.
GoalContact(c, gl) == dist(c.pos, gl.pos) < gl.radius + c.radius

\* The craft c is within the collision threshold of one of the planets ps.
PlanetContact(c, ps) ==
    \E i \in 1..Len(ps) : dist(c.pos, ps[i].pos) < ps[i].radius + c.radius

\* The position pos lies in the closed play area [0, width] x [0, height].
InsideArea(pos, cv) ==
    /\ 0 <= pos.x /\ pos.x <= cv.width
    /\ 0 <= pos.y /\ pos.y <= cv.height

\* The scene initLevel builds for level num in a window of size dims.
FreshScene(num, dims) ==
    LET config == levels(num, dims.width, dims.height)
    IN [ship |-> [pos |-> config.ship, vel |-> Vector2(0, 0),
                  acc |-> Vector2(0, 0), radius |-> Num(8), trail |-> <<>>],
        planets |-> config.planets,
        goal |-> [pos |-> config.goal.pos, radius |-> config.goal.r],
        state |-> "IDLE"]

\* The launch vector of the drag vector v: 0.3 v.
ThreeTenths(v) == Vector2(RoundDiv(3 * v.x, 10), RoundDiv(3 * v.y, 10))

\* C1: the mission becomes FLYING only by a mouse-up in IDLE, which sets the
\* craft velocity to the launch vector; a mouse-up while FLYING or ENDED
\* changes neither the mission state nor the velocity, and no mouse-down,
\* mouse-move or resize changes them either.
C1_LaunchOnlyFromIdle ==
    [][ /\ (state # "FLYING" /\ state' = "FLYING")
            => /\ lastEvent' = "mouseup"
               /\ state = "IDLE"
               /\ ship'.vel = ThreeTenths(sub(dragStart, dragCurrent))
        /\ (lastEvent' = "mouseup" /\ state \in {"FLYING", "ENDED"})
            => (state' = state /\ ship'.vel = ship.vel)
        /\ (lastEvent' \in {"mousedown", "mousemove", "resize"})
            => (state' = state /\ ship'.vel = ship.vel)
      ]_vars

\* C1 witness: a mouse-up has launched the craft with a non-zero drag.
C1_Witness ==
    /\ lastEvent = "mouseup"
    /\ state = "FLYING"
    /\ frameCount = 0
    /\ ship.vel # Vector2(0, 0)

C4_EndedUntilRetry ==
    [][ state = "ENDED"
        => IF lastEvent' = "retry"
           THEN [ship |-> ship', planets |-> planets', goal |-> goal',
                 state |-> state'] = FreshScene(currentLevel', canvas')
           ELSE state' = "ENDED"
      ]_vars

\* C4 witness: a tick has run while the mission was already ENDED (it made
\* no terminal call of its own).
C4_Witness ==
    /\ state = "ENDED"
    /\ lastEvent = "tick"
    /\ outcomes = <<>>

\* C5: a tick while IDLE or ENDED leaves the craft's position, velocity and
\* trail and the mission state as they were.
C5_NoPhysicsOutsideFlight ==
    [][ (lastEvent' = "tick" /\ state \in {"IDLE", "ENDED"})
        => /\ ship'.pos = ship.pos
           /\ ship'.vel = ship.vel
           /\ ship'.trail = ship.trail
           /\ state' = state
      ]_vars

\* C5 witness: a tick has run while the mission was IDLE.
C5_Witness ==
    /\ state = "IDLE"
    /\ lastEvent = "tick"
    /\ frameCount > 0

\* C6: the positions the predictor loop computes are, step for step, the
\* positions of the craft under the live step, from the same start state,
\* planets and step size.
C6_PredictionMatchesLive ==
    \A i \in 1..Min(Len(livePath), Len(ctxPath)) : livePath[i] = ctxPath[i]

\* C6 witness: both have run to the last step, through a gravity field.
C6_Witness ==
    /\ Len(livePath) >= 3
    /\ Len(ctxPath) >= 3
    /\ sim.acc # Vector2(0, 0)
    /\ ctxPath[3] # ctxPath[2]

\* C7: a prediction leaves the live scene and the mission state as they were,
\* and runs only while the mission is IDLE.
C7_PredictionReadOnly ==
    trajPre # Null => (trajPost = trajPre /\ trajPre.state = "IDLE")

\* C7 witness: a frame has drawn a prediction of a non-zero launch.
C7_Witness ==
    /\ lastEvent = "tick"
    /\ trajPre # Null
    /\ Len(ctxPath) = 100
    /\ ctxPath[1] # ship.pos

\* The evaluation has run on the asserted scene of C8: craft radius 8, goal
\* of radius 30 at (500, 100), no planet contact, craft inside the play area.
C8_Case ==
    /\ lastEvent = "checkCollisions"
    /\ ship.radius = Num(8)
    /\ goal = [pos |-> Vector2(Num(500), Num(100)), radius |-> Num(30)]
    /\ ~PlanetContact(ship, planets)
    /\ InsideArea(ship.pos, canvas)

\* C8 as stated: at distance 37 from the goal center the evaluation yields
\* CONTINUE, at distance 36 GOAL_REACHED.
C8_Original ==
    C8_Case =>
        /\ dist(ship.pos, goal.pos) = Num(37)
            => (outcomes = <<>> /\ state = "FLYING")
        /\ dist(ship.pos, goal.pos) = Num(36)
            => (outcomes = <<"COURSE CLEAR!">> /\ state = "ENDED")

\* C8 amended: the threshold is 38 = 30 + 8.  At distance 38 (and beyond) the
\* evaluation yields CONTINUE; at distance 37 and 36 (anything below 38) it
\* yields GOAL_REACHED.
C8_GoalThreshold ==
    C8_Case =>
        IF dist(ship.pos, goal.pos) >= Num(38)
        THEN outcomes = <<>> /\ state = "FLYING"
        ELSE outcomes = <<"COURSE CLEAR!">> /\ state = "ENDED"

\* C8 witness: the evaluation has run with the craft at distance 37.
C8_Witness ==
    /\ C8_Case
    /\ dist(ship.pos, goal.pos) = Num(37)
    /\ ui.message = "COURSE CLEAR!"

\* C9: with no goal or planet contact, a craft on the edge of the play area
\* or inside it yields CONTINUE, a craft with a coordinate strictly outside
\* [0, width] x [0, height] yields OUT_OF_BOUNDS and ENDED.
C9_BoundaryInclusive ==
    (/\ lastEvent = "checkCollisions"
     /\ ~GoalContact(ship, goal)
     /\ ~PlanetContact(ship, planets))
    => IF InsideArea(ship.pos, canvas)
       THEN outcomes = <<>> /\ state = "FLYING"
       ELSE /\ outcomes = <<"LOST IN SPACE">>
            /\ state = "ENDED"
            /\ ui.message = "LOST IN SPACE"

\* C9 witness: the evaluation has run with the craft exactly at x = width.
C9_Witness ==
    /\ lastEvent = "checkCollisions"
    /\ ship.pos.x = canvas.width
    /\ ~GoalContact(ship, goal)
    /\ ~PlanetContact(ship, planets)
    /\ state = "FLYING"

\* C10: while the mission is IDLE the craft is at rest at the start position
\* of the current level (as built for the window size of the scene).
C10_IdleCraftAtStart ==
    state = "IDLE" =>
        /\ ship.vel = Vector2(0, 0)
        /\ ship.pos = levels(currentLevel, sceneDims.width, sceneDims.height).ship

\* C10 witness: IDLE again in level 2, after a launch, a win and a click.
C10_Witness ==
    /\ state = "IDLE"
    /\ currentLevel = 2
    /\ lastEvent = "retry"
    /\ frameCount > 0

\* C11: one live step adds acceleration * dt to the velocity and then the
\* new velocity * dt to the position; with acceleration (0, -10), dt = 1 and
\* velocity (0, 0) the velocity becomes (0, -10) and the position advances
\* by (0, -10).
C11_SymplecticOrder ==
    [][ lastEvent' = "advance"
        => /\ ship'.vel = add(ship.vel, mult(ship'.acc, stepDt))
           /\ ship'.pos = add(ship.pos, mult(ship'.vel, stepDt))
           /\ (/\ ship'.acc = Vector2(0, -Num(10))
               /\ stepDt = Num(1)
               /\ ship.vel = Vector2(0, 0))
              => /\ ship'.vel = Vector2(0, -Num(10))
                 /\ sub(ship'.pos, ship.pos) = Vector2(0, -Num(10))
      ]_vars

\* C11 witness: the step has run with acceleration (0, -10), dt = 1 and no
\* velocity before it.
C11_Witness ==
    /\ lastEvent = "advance"
    /\ stepDt = Num(1)
    /\ ship.acc = Vector2(0, -Num(10))
    /\ ship.vel = Vector2(0, -Num(10))
    /\ ship.pos = Vector2(StepPos.x, StepPos.y - Num(10))

\* C12: a step whose planets are all at d >= influenceRadius leaves the
\* acceleration exactly zero; a step with one planet of positive gravity at
\* 0 < d < influenceRadius (every other planet at or beyond its radius)
\* leaves a nonzero acceleration of magnitude gravity / (d + 5), pointing
\* from the craft to that planet.  Magnitude and direction are compared to
\* within one step of the number resolution.
C12_ForceCutoff ==
    [][ lastEvent' = "advance"
        => LET all == 1..Len(planets)
               d(i) == dist(planets[i].pos, ship.pos)
               beyond(i) == d(i) >= planets[i].influenceRadius
               pulls(i) == /\ 0 < d(i)
                           /\ d(i) < planets[i].influenceRadius
                           /\ planets[i].gravity > 0
           IN /\ (\A i \in all : beyond(i)) => ship'.acc = Vector2(0, 0)
              /\ \A i \in all :
                   (pulls(i) /\ \A j \in all \ {i} : beyond(j))
                   => LET dir == sub(planets[i].pos, ship.pos)
                          a == ship'.acc
                      IN /\ a # Vector2(0, 0)
                         /\ Abs(mag(a) - Quo(planets[i].gravity, d(i) + Num(5))) <= 1
                         /\ a.x * dir.x + a.y * dir.y > 0
                         /\ Abs(a.x * dir.y - a.y * dir.x) <= mag(dir)
      ]_vars

\* C12 witness: the step has run with one planet at d = influenceRadius
\* exactly and one inside its radius; the acceleration is the pull of the
\* second alone.
C12_Witness ==
    /\ lastEvent = "advance"
    /\ Len(planets) = 2
    /\ dist(planets[1].pos, StepPos) = planets[1].influenceRadius
    /\ dist(planets[2].pos, StepPos) < planets[2].influenceRadius
    /\ ship.acc = Vector2(0, -Num(10))

\* C13: two runs of the live step from the same position and velocity, with
\* the same planets and dt, leave the same position and velocity, whatever
\* frame counter, trail and stale acceleration each run started with.
C13_StepDeterministic ==
    (livePath # <<>> /\ twin.steps = 1)
    => /\ ship.pos = twin.ship.pos
       /\ ship.vel = twin.ship.vel

\* C13 witness: both runs have stepped through a gravity field; they
\* started with different stale accelerations and frame counters, and their
\* trails differ.
C13_Witness ==
    /\ livePath # <<>>
    /\ twin.steps = 1
    /\ frameCount # twin.frameCount
    /\ ship.trail # twin.ship.trail
    /\ Len(twin.ship.trail) = 2
    /\ ship.acc # Vector2(0, 0)
    /\ ship.pos # StepPos

\* The planets ps and the goal gl are physical: positive radii and influence
\* radii, no negative gravity.
Physical(ps, gl) ==
    /\ gl.radius > 0
    /\ \A i \in 1..Len(ps) : /\ ps[i].radius > 0
                             /\ ps[i].influenceRadius > 0
                             /\ ps[i].gravity >= 0

C15_NormalizeZero ==
    [][ lastEvent' = "advance"
        => LET on(p) == p.pos = ship.pos
               off(p) == ~on(p)
               others == SelectSeq(planets, off)
           IN \A i \in 1..Len(planets) :
                on(planets[i])
                => /\ normalize(sub(planets[i].pos, ship.pos)) = Vector2(0, 0)
                   /\ ship'.acc = shipGravity(ship.pos, others, 1, Vector2(0, 0))
                   /\ others = <<>> => ship'.acc = Vector2(0, 0)
                   /\ ship'.vel = add(ship.vel, mult(ship'.acc, stepDt))
                   /\ ship'.pos = add(ship.pos, mult(ship'.vel, stepDt))
      ]_vars

\* C15 witness: the step has run with a planet on the craft and a second
\* one at d = 100 along (-3, 4); the acceleration is the pull of the second
\* (strength 20).
C15_Witness ==
    /\ lastEvent = "advance"
    /\ Len(planets) = 2
    /\ planets[1].pos = StepPos
    /\ planets[1].influenceRadius > 0
    /\ ship.acc = Vector2(-Num(12), Num(16))

\* C16: every prediction runs its 100 iterations and passes 100 positions
\* on, also when a predicted position lies inside a planet's radius.
C16_PredictionLength ==
    trajPre # Null => Len(ctxPath) = 100

\* C16 witness: a frame has drawn a prediction of 100 positions, one of
\* which, before the last, lies inside a planet's radius.
C16_Witness ==
    /\ trajPre # Null
    /\ Len(ctxPath) = 100
    /\ \E i \in 1..99, p \in 1..Len(planets) :
          dist(ctxPath[i], planets[p].pos) < planets[p].radius

\* C17: the trail never holds more than 20 positions; a FLYING tick whose
\* frame counter is a multiple of 5 appends the craft position at the end,
\* evicting the oldest entry when 20 are held already; a retry click starts
\* an empty trail; nothing else changes the trail.
C17_TrailFifo ==
    [][ /\ Len(ship'.trail) <= 20
        /\ IF lastEvent' = "retry"
           THEN ship'.trail = <<>>
           ELSE IF lastEvent' = "tick" /\ state = "FLYING" /\ frameCount' % 5 = 0
           THEN ship'.trail = Append(IF Len(ship.trail) < 20 THEN ship.trail
                                     ELSE Tail(ship.trail),
                                     ship'.pos)
           ELSE ship'.trail = ship.trail
      ]_vars

\* C17 witness: frame 105 of a flight of more than 100 frames at 3 px per
\* frame: the trail holds 20 positions, the newest is the craft position and
\* the oldest is 95 frames old (the entry of frame 5 has been evicted).
C17_Witness ==
    /\ lastEvent = "tick"
    /\ state = "FLYING"
    /\ frameCount = 105
    /\ Len(ship.trail) = 20
    /\ ship.trail[20] = ship.pos
    /\ ship.pos.x >= Num(100 + 3 * 101)
    /\ ship.pos.x - ship.trail[1].x = Num(3 * 95)

\* C18: the level number changes only by a retry click made while the
\* mission is ENDED with the win reported last, and then to the next level
\* (3 to 1), once; a retry click in any other situation keeps the level
\* number; either way the click leads to the fresh scene of the level.
C18_LevelAdvance ==
    [][ LET won == state = "ENDED" /\ ui.message = "COURSE CLEAR!"
            next == IF currentLevel = 3 THEN 1 ELSE currentLevel + 1
        IN /\ currentLevel' # currentLevel => (lastEvent' = "retry" /\ won)
           /\ lastEvent' = "retry"
              => /\ currentLevel' = IF won THEN next ELSE currentLevel
                 /\ ui'.stage = currentLevel'
                 /\ [ship |-> ship', planets |-> planets', goal |-> goal',
                     state |-> state'] = FreshScene(currentLevel', canvas')
      ]_vars

\* C18 witness: level 1 again by a click after a win; level 3 is the only
\* level that leads there.
C18_Witness ==
    /\ lastEvent = "retry"
    /\ currentLevel = 1
    /\ ui.message = "COURSE CLEAR!"
    /\ frameCount = 1
    /\ state = "IDLE"

\* C19: after every handler the level number is 1, 2 or 3 and the planets
\* and the goal of the live scene are those of that level's configuration
\* (for the window size the scene was built in); while the mission is IDLE
\* the craft is the new craft at the level's start.
C19_SceneOfLevel ==
    /\ currentLevel \in {1, 2, 3}
    /\ LET config == levels(currentLevel, sceneDims.width, sceneDims.height)
       IN /\ planets = config.planets
          /\ goal = [pos |-> config.goal.pos, radius |-> config.goal.r]
          /\ state = "IDLE"
             => ship = [pos |-> config.ship, vel |-> Vector2(0, 0),
                        acc |-> Vector2(0, 0), radius |-> Num(8), trail |-> <<>>]

\* C19 witness: the craft has been launched in level 1, reached by the click
\* after the win of level 3 (its message is still the text of the hidden
\* message element).
C19_Witness ==
    /\ lastEvent = "mouseup"
    /\ state = "FLYING"
    /\ currentLevel = 1
    /\ ui.stage = 1
    /\ ui.message = "COURSE CLEAR!"
    /\ Len(planets) = 1

=============================================================================
